---------------------------- MODULE Spec2Model ----------------------------
(***************************************************************************)
(* A model of the clause pipeline of src/streamlit_app.py:                 *)
(*   chunk_large_document  (the Chunker),                                  *)
(*   split_into_clauses    (the Pattern Segmenter),                        *)
(*   chinese_text_similarity, extract_key_terms, match_clauses (Matcher).  *)
(* Each function is a small state machine of its own; the specifications   *)
(* SpecChunk, SpecSplit and SpecMatch run one of them and leave the        *)
(* variables of the other two at their idle values.                        *)
(***************************************************************************)
EXTENDS Integers, Sequences, FiniteSets, TLC

VARIABLES
    \* chunk_large_document(text, chunk_size, overlap)
    text,           \* the argument: a sequence of characters
    chunk_size,     \* the argument
    overlap,        \* the argument
    start,          \* local `start`
    chunks,         \* local `chunks`
    cpc,            \* position: "idle", "while" (loop test), "done" (returned)
    \* match_clauses(clauses1, clauses2), and the setting of the sidebar
    clauses1,       \* the argument: a sequence of clause texts
    clauses2,       \* the argument
    i,              \* number of left clauses the for loop has processed
    matched_pairs,  \* local `matched_pairs`
    used_indices,   \* local `used_indices`
    unmatched1,     \* local `unmatched1`, as the positions of clauses1 it holds
    unmatched2,     \* local `unmatched2`, as the positions of clauses2 it holds
    similarity_threshold,  \* the slider value of the advanced settings
    mpc,            \* position: "idle", "loop", "done" (returned)
    \* split_into_clauses(text)
    doc_text,       \* the argument `text`: a sequence of runs of characters
    pat,            \* number of patterns the for loop has tried
    best_clauses,   \* local `best_clauses`
    paragraphs,     \* local `paragraphs`
    result,         \* the returned list
    path,           \* which return was taken: "pattern", "paragraph", "window"
    spc,            \* position: "idle", "patterns", "paragraphs", "done"
    \* chinese_text_similarity, called with (arg1, arg2) and with (arg2, arg1)
    arg1,           \* a clause text
    arg2,           \* a clause text
    sim12,          \* chinese_text_similarity(arg1, arg2)
    sim21,          \* chinese_text_similarity(arg2, arg1)
    qpc,            \* position: "idle", "call", "done"
    \* cached_func around call_qwen_api
    cache,          \* cache["call_qwen_api"]: key -> stored result
    prompt,         \* the argument of the call in hand
    api_key,        \* the argument of the call in hand
    attempt,        \* the loop variable of `for attempt in range(retry)`
    posts,          \* the requests.post made by the call in hand
    ret,            \* what the last finished call returned
    hit,            \* the call in hand was answered from the cache
    failed,         \* keys of the calls that returned None after their attempts
    retried,        \* the key of the call in hand was in failed when it began
    calls,          \* the calls finished so far
    apc,            \* position: "idle", "ready", "body", "loop"
    \* the analysis run
    n_files,        \* len(compare_files)
    total_steps,
    current_step,
    file_i,         \* the compare file in hand, counted from 1
    skipped,        \* the compare files left out for want of text
    shown,          \* the value last passed to overall_progress, <<num, den>>
    ppc             \* position: "idle", "base_extract", "base_clauses",
                    \* "file_extract", "file_structure", "file_compare",
                    \* "finish", "done"

cvars == <<text, chunk_size, overlap, start, chunks, cpc>>

mvars == <<clauses1, clauses2, i, matched_pairs, used_indices, unmatched1,
           unmatched2, similarity_threshold, mpc>>

svars == <<doc_text, pat, best_clauses, paragraphs, result, path, spc>>

qvars == <<arg1, arg2, sim12, sim21, qpc>>

\* the variables of the functions added to the three above
avars == <<cache, prompt, api_key, attempt, posts, ret, hit, failed, retried,
           calls, apc>>

pvars == <<n_files, total_steps, current_step, file_i, skipped, shown, ppc>>

xvars == <<qvars, avars, pvars>>

vars == <<cvars, mvars, svars, xvars>>

\* ------------------------------------------------------------------------
\* Generic helpers
\* ------------------------------------------------------------------------

Min(a, b) == IF a <= b THEN a ELSE b

Max(a, b) == IF a >= b THEN a ELSE b

\* Python's s[lo:hi] on a sequence (0-based, half open), with Python's
\* treatment of negative and out-of-range indices.
PyIndex(n, k) == IF k < 0 THEN Max(0, n + k) ELSE Min(n, k)

PySlice(s, lo, hi) ==
    LET a == PyIndex(Len(s), lo)
        b == PyIndex(Len(s), hi)
    IN  IF a >= b THEN << >> ELSE SubSeq(s, a + 1, b)

\* s[lo:]
PySliceFrom(s, lo) == PySlice(s, lo, Len(s))

RECURSIVE Concat(_)
Concat(ss) == IF ss = << >> THEN << >> ELSE Head(ss) \o Concat(Tail(ss))

\* ------------------------------------------------------------------------
\* Clause texts
\*
\* A clause text is a sequence of symbols.  "a", "b" are words; "T1", "T2"
\* are anchors that extract_key_terms finds (a clause number such as
\* 第一条, a bracketed header), each also one word of the text; "," is
\* a punctuation character, which chinese_text_similarity deletes before it
\* tokenizes.  jieba.cut is modelled as yielding one token per symbol.
\* ------------------------------------------------------------------------

TermSymbols == {"T1", "T2"}

PunctSymbols == {","}

\* The clause texts the Matcher is run on.  split_into_clauses never emits
\* an empty string, so none is here.
ClauseA == <<"T1", "a", "a", "a", "a">>

ClauseB == <<"T1", "b", "b", "b">>

ClauseC == <<"a", "a", "a", "a">>

ClauseD == <<"T1", "T2", "b">>

ClauseE == <<",", ",">>

ClausePool == {ClauseA, ClauseB, ClauseC, ClauseD, ClauseE}

MaxLeft == 2

MaxRight == 2

SeqsUpTo(S, n) == UNION {[1..k -> S] : k \in 0..n}

\* The values of the similarity_threshold slider the model draws from
\* (the slider runs from 0.0 to 1.0 in steps of 0.05, default 0.25), as
\* fractions <<numerator, denominator>>.
SliderValues == {<<1, 4>>, <<1, 2>>}

\* ------------------------------------------------------------------------
\* Scores: fractions <<n, d>> with d > 0.  The code computes them as floats;
\* on the clause texts of ClausePool no comparison of two scores, or of a
\* score with 0.25, is close enough for rounding to decide it.
\* ------------------------------------------------------------------------

Gt(x, y) == x[1] * y[2] > y[1] * x[2]

One == <<1, 1>>

\* best_ratio = 0.25
BaseThreshold == <<1, 4>>

\* min(1.0, ratio * 1.1)
Boost(r) == IF 11 * r[1] > 10 * r[2] THEN One ELSE <<11 * r[1], 10 * r[2]>>

\* ------------------------------------------------------------------------
\* chinese_text_similarity: difflib.SequenceMatcher(None, words1, words2).ratio()
\* on the tokens of the two texts.  Sequences here are shorter than the 200
\* elements at which SequenceMatcher's autojunk heuristic starts.
\* ------------------------------------------------------------------------

\* re.sub(r'[^\w\s]', '', text) followed by list(jieba.cut(...))
Tokens(t) == SelectSeq(t, LAMBDA ch : ch \notin PunctSymbols)

\* length of the common run of a[x..) and b[y..) inside a[..ahi), b[..bhi)
\* (0-based positions)
RECURSIVE RunLen(_, _, _, _, _, _)
RunLen(a, b, x, y, ahi, bhi) ==
    IF x < ahi /\ y < bhi /\ a[x + 1] = b[y + 1]
    THEN 1 + RunLen(a, b, x + 1, y + 1, ahi, bhi)
    ELSE 0

\* SequenceMatcher.find_longest_match(alo, ahi, blo, bhi): the longest block
\* a[x:x+k] == b[y:y+k] within the ranges; of those the one starting
\* earliest in a, and of those the one starting earliest in b; (alo, blo, 0)
\* when no element matches.
find_longest_match(a, b, alo, ahi, blo, bhi) ==
    LET starts == (alo..(ahi - 1)) \X (blo..(bhi - 1))
        len == [p \in starts |-> RunLen(a, b, p[1], p[2], ahi, bhi)]
        hits == {p \in starts : len[p] > 0}
    IN  IF hits = {} THEN <<alo, blo, 0>>
        ELSE LET p == CHOOSE q \in hits :
                        \A r \in hits :
                            \/ len[q] > len[r]
                            \/ /\ len[q] = len[r]
                               /\ \/ q[1] < r[1]
                                  \/ q[1] = r[1] /\ q[2] <= r[2]
             IN  <<p[1], p[2], len[p]>>

\* The total size of the blocks of SequenceMatcher.get_matching_blocks():
\* the longest match, then the same to its left and to its right.
RECURSIVE MatchingSize(_, _, _, _, _, _)
MatchingSize(a, b, alo, ahi, blo, bhi) ==
    LET m == find_longest_match(a, b, alo, ahi, blo, bhi)
    IN  IF m[3] = 0 THEN 0
        ELSE m[3]
             + (IF alo < m[1] /\ blo < m[2]
                THEN MatchingSize(a, b, alo, m[1], blo, m[2]) ELSE 0)
             + (IF m[1] + m[3] < ahi /\ m[2] + m[3] < bhi
                THEN MatchingSize(a, b, m[1] + m[3], ahi, m[2] + m[3], bhi)
                ELSE 0)

\* SequenceMatcher.ratio(): 2.0 * matches / length, and 1.0 when length is 0
ratio(a, b) ==
    IF Len(a) + Len(b) = 0 THEN One
    ELSE <<2 * MatchingSize(a, b, 0, Len(a), 0, Len(b)), Len(a) + Len(b)>>

chinese_text_similarity(text1, text2) == ratio(Tokens(text1), Tokens(text2))

\* ------------------------------------------------------------------------
\* extract_key_terms and the term_matches table of match_clauses
\* ------------------------------------------------------------------------

extract_key_terms(t) == {t[k] : k \in DOMAIN t} \cap TermSymbols

\* term_matches[x], as the sequence of <<j, overlap>> in the order the
\* double loop appends them; << >> when x is no key of term_matches.
term_matches(c1, c2, x) ==
    LET terms == extract_key_terms(c1[x])
        ov(j) == Cardinality(terms \cap extract_key_terms(c2[j]))
        all == [j \in 1..Len(c2) |-> <<j, ov(j)>>]
    IN  IF terms = {} THEN << >>
        ELSE SelectSeq(all, LAMBDA e : e[2] > 0)

\* sorted(..., key=lambda x: x[1], reverse=True): descending, and stable
RECURSIVE SortedByOverlap(_)
SortedByOverlap(s) ==
    IF s = << >> THEN << >>
    ELSE LET k == CHOOSE k \in DOMAIN s :
                    /\ \A l \in DOMAIN s : s[k][2] >= s[l][2]
                    /\ \A l \in 1..(k - 1) : s[l][2] < s[k][2]
             rest == SubSeq(s, 1, k - 1) \o SubSeq(s, k + 1, Len(s))
         IN  <<s[k]>> \o SortedByOverlap(rest)

\* [j for j in range(len(clauses2)) if j not in used_indices]
UnusedInOrder(c2, used) ==
    LET all == [j \in 1..Len(c2) |-> j]
    IN  SelectSeq(all, LAMBDA j : j \notin used)

\* the candidate list of left clause x: the unconsumed term matches by
\* descending overlap, and every unconsumed right clause when there is none
TermCandidatesUnsorted(c1, c2, x, used) ==
    LET tm == term_matches(c1, c2, x)
        js == [k \in DOMAIN tm |-> tm[k][1]]
    IN  SelectSeq(js, LAMBDA j : j \notin used)

TermCandidates(c1, c2, x, used) ==
    LET sorted == SortedByOverlap(term_matches(c1, c2, x))
        js == [k \in DOMAIN sorted |-> sorted[k][1]]
    IN  SelectSeq(js, LAMBDA j : j \notin used)

CandidatesIgnoringUsed(c1, c2, x, used) ==
    IF TermCandidates(c1, c2, x, {}) # << >>
    THEN TermCandidates(c1, c2, x, {})
    ELSE UnusedInOrder(c2, {})

Candidates(c1, c2, x, used) ==
    IF TermCandidates(c1, c2, x, used) # << >>
    THEN TermCandidates(c1, c2, x, used)
    ELSE UnusedInOrder(c2, used)

\* the score of candidate j: the similarity, raised by 10% (capped at 1.0)
\* when j is in term_matches[x]
BoostedScore(c1, c2, x, j) ==
    LET r == chinese_text_similarity(c1[x], c2[j])
        tm == term_matches(c1, c2, x)
    IN  IF \E k \in DOMAIN tm : tm[k][1] = j THEN Boost(r) ELSE r

\* the scoring loop over the candidates: [best_ratio, best_j] after it,
\* best_j = -1 when no candidate scored above the ratio it started from
RECURSIVE ScanCandidatesLastOnTie(_, _, _, _, _, _)
ScanCandidatesLastOnTie(c1, c2, x, cands, best_ratio, best_j) ==
    IF cands = << >> THEN [best_ratio |-> best_ratio, best_j |-> best_j]
    ELSE LET j == Head(cands)
             r == BoostedScore(c1, c2, x, j)
         IN  IF ~Gt(best_ratio, r)
             THEN ScanCandidatesLastOnTie(c1, c2, x, Tail(cands), r, j)
             ELSE ScanCandidatesLastOnTie(c1, c2, x, Tail(cands),
                                          best_ratio, best_j)

RECURSIVE ScanCandidates(_, _, _, _, _, _)
ScanCandidates(c1, c2, x, cands, best_ratio, best_j) ==
    IF cands = << >> THEN [best_ratio |-> best_ratio, best_j |-> best_j]
    ELSE LET j == Head(cands)
             r == BoostedScore(c1, c2, x, j)
         IN  IF Gt(r, best_ratio)
             THEN ScanCandidates(c1, c2, x, Tail(cands), r, j)
             ELSE ScanCandidates(c1, c2, x, Tail(cands), best_ratio, best_j)

\* `if best_match:` a string is true unless it is empty
Truthy(s) == s # << >>

\* ------------------------------------------------------------------------
\* match_clauses
\* ------------------------------------------------------------------------

MatchIdle ==
    /\ clauses1 = << >>
    /\ clauses2 = << >>
    /\ i = 0
    /\ matched_pairs = << >>
    /\ used_indices = {}
    /\ unmatched1 = << >>
    /\ unmatched2 = << >>
    /\ similarity_threshold = BaseThreshold
    /\ mpc = "idle"

MatchStart ==
    /\ clauses1 \in SeqsUpTo(ClausePool, MaxLeft)
    /\ clauses2 \in SeqsUpTo(ClausePool, MaxRight)
    /\ similarity_threshold \in SliderValues
    /\ i = 0
    /\ matched_pairs = << >>
    /\ used_indices = {}
    /\ unmatched1 = << >>
    /\ unmatched2 = << >>
    /\ mpc = "loop"

\* One pass of `for i, clause1 in enumerate(clauses1)`: left clause i + 1 of
\* the model (index i of the code).  A pair carries, besides the code's
\* (clause1, best_match, best_ratio), the positions li, rj it was made of.
MatchStep ==
    /\ mpc = "loop"
    /\ i < Len(clauses1)
    /\ LET x == i + 1
           cands == Candidates(clauses1, clauses2, x, used_indices)
           best == ScanCandidates(clauses1, clauses2, x, cands, BaseThreshold, -1)
       IN  IF best.best_j # -1 /\ Truthy(clauses2[best.best_j])
           THEN /\ matched_pairs' = Append(matched_pairs,
                        [clause1 |-> clauses1[x],
                         best_match |-> clauses2[best.best_j],
                         best_ratio |-> best.best_ratio,
                         li |-> x, rj |-> best.best_j])
                /\ used_indices' = used_indices \cup {best.best_j}
           ELSE UNCHANGED <<matched_pairs, used_indices>>
    /\ i' = i + 1
    /\ UNCHANGED <<clauses1, clauses2, unmatched1, unmatched2,
                   similarity_threshold, mpc>>
    /\ UNCHANGED <<cvars, svars, xvars>>

\* unmatched1 = [clause for i, clause in enumerate(clauses1)
\*               if i not in [idx for idx, _ in enumerate(matched_pairs)]]
\* with positions counted from 1
Unmatched1Positions(c1, pairs) ==
    LET all == [x \in 1..Len(c1) |-> x]
    IN  SelectSeq(all, LAMBDA x : x \notin {idx : idx \in 1..Len(pairs)})

\* unmatched2 = [clause for j, clause in enumerate(clauses2) if j not in used_indices]
Unmatched2Positions(c2, used) == UnusedInOrder(c2, used)

\* The loop is over: compute unmatched1, unmatched2 and return.
MatchFinish ==
    /\ mpc = "loop"
    /\ i = Len(clauses1)
    /\ unmatched1' = Unmatched1Positions(clauses1, matched_pairs)
    /\ unmatched2' = Unmatched2Positions(clauses2, used_indices)
    /\ mpc' = "done"
    /\ UNCHANGED <<clauses1, clauses2, i, matched_pairs, used_indices,
                   similarity_threshold>>
    /\ UNCHANGED <<cvars, svars, xvars>>

MatchNext == MatchStep \/ MatchFinish

\* ------------------------------------------------------------------------
\* Bounds of the Chunker's inputs
\* ------------------------------------------------------------------------

MaxTextLen == 10

MaxChunkSize == 5

\* The loop of chunk_large_document has no bound of its own; the model stops
\* a run after this many chunks.  A call with chunk_size > overlap >= 0
\* emits at most one chunk per character, so the cap only cuts runs that
\* would not end.
MaxChunks == MaxTextLen + 2

Letters == <<"A", "B", "C", "D", "E", "F", "G", "H", "I", "J", "K", "L">>

\* A text of n pairwise distinct characters (as far as Letters reaches), so
\* that a lost or a repeated character shows in a comparison.
DistinctText(n) == [k \in 1..n |-> Letters[((k - 1) % Len(Letters)) + 1]]

\* A text of n equal characters.
UniformText(n) == [k \in 1..n |-> "A"]

ChunkTexts == {DistinctText(n) : n \in 0..MaxTextLen}
                 \cup {UniformText(n) : n \in 0..MaxTextLen}

\* ------------------------------------------------------------------------
\* chunk_large_document
\* ------------------------------------------------------------------------

\* start = end - overlap
NextStartNoOverlap(end, ov) == end

NextStart(end, ov) == end - ov

ChunkIdle ==
    /\ text = << >>
    /\ chunk_size = 0
    /\ overlap = 0
    /\ start = 0
    /\ chunks = << >>
    /\ cpc = "idle"

ChunkStart ==
    /\ text \in ChunkTexts
    /\ chunk_size \in 0..MaxChunkSize
    /\ overlap \in -1..MaxChunkSize
    /\ start = 0
    /\ chunks = << >>
    /\ cpc = "while"

\* One iteration of the while loop: the test holds, the body runs, and the
\* `if start >= text_length: break` at its end leaves the loop.
ChunkIterate ==
    /\ cpc = "while"
    /\ start < Len(text)
    /\ Len(chunks) < MaxChunks
    /\ LET end == start + chunk_size
           chunk == PySlice(text, start, end)
           nstart == NextStart(end, overlap)
       IN  /\ chunks' = Append(chunks, chunk)
           /\ start' = nstart
           /\ cpc' = IF nstart >= Len(text) THEN "done" ELSE "while"
    /\ UNCHANGED <<text, chunk_size, overlap>>
    /\ UNCHANGED <<mvars, svars, xvars>>

\* The loop test fails: return chunks.
ChunkReturn ==
    /\ cpc = "while"
    /\ ~(start < Len(text))
    /\ cpc' = "done"
    /\ UNCHANGED <<text, chunk_size, overlap, start, chunks>>
    /\ UNCHANGED <<mvars, svars, xvars>>

ChunkNext == ChunkIterate \/ ChunkReturn

\* ------------------------------------------------------------------------
\* Document texts of split_into_clauses
\*
\* A document text is a sequence of runs [k, p, n]: n characters of kind k.
\*   "ws"  whitespace
\*   "ch"  characters that are neither whitespace, nor sentence punctuation,
\*         nor part of a clause marker
\*   "pu"  sentence punctuation, one of the four characters of the
\*         paragraph split
\*   "mk"  one occurrence of the clause marker of pattern p (for the other
\*         patterns and for the fallbacks these are n ordinary characters)
\* ------------------------------------------------------------------------

Run(k, p, n) == [k |-> k, p |-> p, n |-> n]

\* the patterns list has 8 entries
NumPatterns == 8

\* len(clause.strip()) > 10, len(p) > 10
MinClauseLen == 10

\* len(clauses) > 2
MinClauseCount == 2

\* len(paragraphs) < 3
MinParagraphs == 3

\* len(text) > 5000
LargeDocLen == 5000

\* chunk_size = 1000
FallbackChunkSize == 1000

RECURSIVE CharLen(_)
CharLen(t) == IF t = << >> THEN 0 ELSE Head(t).n + CharLen(Tail(t))

RECURSIVE LStrip(_)
LStrip(t) ==
    IF t # << >> /\ Head(t).k = "ws" THEN LStrip(Tail(t)) ELSE t

RECURSIVE RStrip(_)
RStrip(t) ==
    IF t # << >> /\ t[Len(t)].k = "ws"
    THEN RStrip(SubSeq(t, 1, Len(t) - 1)) ELSE t

\* str.strip()
Strip(t) == RStrip(LStrip(t))

\* number of characters before run x
RECURSIVE RunOffset(_, _)
RunOffset(t, x) == IF x <= 1 THEN 0 ELSE t[x - 1].n + RunOffset(t, x - 1)

\* text[lo:hi] for 0 <= lo <= hi
SliceRuns(t, lo, hi) ==
    LET cut == [x \in DOMAIN t |->
                  LET s == RunOffset(t, x)
                  IN  Run(t[x].k, t[x].p,
                          Max(0, Min(hi, s + t[x].n) - Max(lo, s)))]
    IN  SelectSeq(cut, LAMBDA r : r.n > 0)

\* re.findall(pattern, text, re.DOTALL) for pattern p: each match runs from
\* one marker of p to just before the next marker of p, or to the end of
\* the text; then the filter
\*   [clause.strip() for clause in clauses
\*    if clause.strip() and len(clause.strip()) > 10]
PatternClauses(p, t) ==
    LET all == [x \in DOMAIN t |-> x]
        marks == SelectSeq(all, LAMBDA x : t[x].k = "mk" /\ t[x].p = p)
        stop(m) == IF m < Len(marks) THEN marks[m + 1] - 1 ELSE Len(t)
        found == [m \in DOMAIN marks |-> Strip(SubSeq(t, marks[m], stop(m)))]
    IN  SelectSeq(found, LAMBDA c : c # << >> /\ CharLen(c) > MinClauseLen)

\* len(clauses) > len(best_clauses) and len(clauses) > 2
BetterFirstMatch(n, best) == best = 0 /\ n > MinClauseCount

Better(n, best) == n > best /\ n > MinClauseCount

\* re.split(r'[。；！？]\s*', text): the pieces between the separators, a
\* separator being a punctuation character with the whitespace after it.
\* Empty pieces are left out (the filter below drops them).
RECURSIVE SplitPieces(_, _, _)
SplitPieces(t, cur, afterSep) ==
    IF t = << >> THEN (IF cur = << >> THEN << >> ELSE <<cur>>)
    ELSE IF Head(t).k = "pu"
         THEN (IF cur = << >> THEN << >> ELSE <<cur>>)
                 \o SplitPieces(Tail(t), << >>, TRUE)
         ELSE IF Head(t).k = "ws" /\ afterSep
              THEN SplitPieces(Tail(t), << >>, TRUE)
              ELSE SplitPieces(Tail(t), Append(cur, Head(t)), FALSE)

\* paragraphs = [p.strip() for p in paragraphs if p.strip() and len(p) > 10]
Paragraphs(t) ==
    LET pieces == SplitPieces(t, << >>, FALSE)
        kept == SelectSeq(pieces,
                    LAMBDA p : Strip(p) # << >> /\ CharLen(p) > MinClauseLen)
    IN  [x \in DOMAIN kept |-> Strip(kept[x])]

\* [text[i:i+chunk_size] for i in range(0, len(text), chunk_size)]
FixedWindows(t) ==
    LET len == CharLen(t)
        count == (len + FallbackChunkSize - 1) \div FallbackChunkSize
    IN  [w \in 1..count |->
            SliceRuns(t, (w - 1) * FallbackChunkSize, w * FallbackChunkSize)]

\* ------------------------------------------------------------------------
\* Bounds of the Segmenter's inputs
\* ------------------------------------------------------------------------

MaxUnits == 7

MaxRuns == 3

\* a clause of pattern 1 that passes the length filter
Unit1Long == <<Run("mk", 1, 3), Run("ch", 0, 12)>>

\* a clause of pattern 1 that is long enough only with its trailing blanks
Unit1Padded == <<Run("mk", 1, 3), Run("ch", 0, 4), Run("ws", 0, 12)>>

\* a clause of pattern 3 that passes the length filter
Unit3Long == <<Run("mk", 3, 2), Run("ch", 0, 12)>>

UnitPool == {Unit1Long, Unit1Padded, Unit3Long}

RunPool == {Run("ws", 0, 12), Run("ws", 0, LargeDocLen + 1),
            Run("ch", 0, 3), Run("ch", 0, 12), Run("ch", 0, LargeDocLen + 1),
            Run("pu", 0, 1)}

StructuredTexts == {Concat(us) : us \in SeqsUpTo(UnitPool, MaxUnits)}

PlainTexts == SeqsUpTo(RunPool, MaxRuns)

\* ------------------------------------------------------------------------
\* split_into_clauses
\* ------------------------------------------------------------------------

SplitIdle ==
    /\ doc_text = << >>
    /\ pat = 0
    /\ best_clauses = << >>
    /\ paragraphs = << >>
    /\ result = << >>
    /\ path = "none"
    /\ spc = "idle"

SplitStart ==
    /\ doc_text \in StructuredTexts \cup PlainTexts
    /\ pat = 0
    /\ best_clauses = << >>
    /\ paragraphs = << >>
    /\ result = << >>
    /\ path = "none"
    /\ spc = "patterns"

\* One pass of `for pattern in patterns`
SplitTryPattern ==
    /\ spc = "patterns"
    /\ pat < NumPatterns
    /\ LET clauses == PatternClauses(pat + 1, doc_text)
       IN  best_clauses' = IF Better(Len(clauses), Len(best_clauses))
                           THEN clauses ELSE best_clauses
    /\ pat' = pat + 1
    /\ UNCHANGED <<doc_text, paragraphs, result, path, spc>>
    /\ UNCHANGED <<cvars, mvars, xvars>>

\* `if best_clauses: return best_clauses`
SplitReturnBest ==
    /\ spc = "patterns"
    /\ pat = NumPatterns
    /\ best_clauses # << >>
    /\ result' = best_clauses
    /\ path' = "pattern"
    /\ spc' = "done"
    /\ UNCHANGED <<doc_text, pat, best_clauses, paragraphs>>
    /\ UNCHANGED <<cvars, mvars, xvars>>

\* the paragraph split and its filter
SplitParagraphs ==
    /\ spc = "patterns"
    /\ pat = NumPatterns
    /\ best_clauses = << >>
    /\ paragraphs' = Paragraphs(doc_text)
    /\ spc' = "paragraphs"
    /\ UNCHANGED <<doc_text, pat, best_clauses, result, path>>
    /\ UNCHANGED <<cvars, mvars, xvars>>

TooFewParagraphs ==
    Len(paragraphs) < MinParagraphs /\ CharLen(doc_text) > LargeDocLen

\* `return paragraphs` without the fixed-size split
SplitReturnParagraphs ==
    /\ spc = "paragraphs"
    /\ ~TooFewParagraphs
    /\ result' = paragraphs
    /\ path' = "paragraph"
    /\ spc' = "done"
    /\ UNCHANGED <<doc_text, pat, best_clauses, paragraphs>>
    /\ UNCHANGED <<cvars, mvars, xvars>>

\* the fixed-size split of a large text with fewer than 3 paragraphs
SplitFixedWindows ==
    /\ spc = "paragraphs"
    /\ TooFewParagraphs
    /\ paragraphs' = FixedWindows(doc_text)
    /\ result' = FixedWindows(doc_text)
    /\ path' = "window"
    /\ spc' = "done"
    /\ UNCHANGED <<doc_text, pat, best_clauses>>
    /\ UNCHANGED <<cvars, mvars, xvars>>

SplitNext ==
    \/ SplitTryPattern
    \/ SplitReturnBest
    \/ SplitParagraphs
    \/ SplitReturnParagraphs
    \/ SplitFixedWindows

\* ------------------------------------------------------------------------
\* chinese_text_similarity called on its own, in both argument orders
\* ------------------------------------------------------------------------

MaxSimLen == 4

SimWords == {"a", "b", "c"}

\* texts of words, and two with punctuation between and instead of words
SimTexts == SeqsUpTo(SimWords, MaxSimLen) \cup {<<",">>, <<"a", ",", "b">>}

SimIdle ==
    /\ arg1 = << >>
    /\ arg2 = << >>
    /\ sim12 = One
    /\ sim21 = One
    /\ qpc = "idle"

SimStart ==
    /\ arg1 \in SimTexts
    /\ arg2 \in SimTexts
    /\ sim12 = One
    /\ sim21 = One
    /\ qpc = "call"

\* chinese_text_similarity(arg1, arg2) and chinese_text_similarity(arg2, arg1)
SimCall ==
    /\ qpc = "call"
    /\ sim12' = chinese_text_similarity(arg1, arg2)
    /\ sim21' = chinese_text_similarity(arg2, arg1)
    /\ qpc' = "done"
    /\ UNCHANGED <<arg1, arg2>>
    /\ UNCHANGED <<cvars, mvars, svars, avars, pvars>>

SimNext == SimCall

\* ------------------------------------------------------------------------
\* cached_func and call_qwen_api
\* ------------------------------------------------------------------------

\* retry=3, the default every call site leaves in place
DefaultRetry == 3

MaxCalls == 3

Prompts == {"p1", "p2"}

\* the sidebar's api_key: empty until the user enters one
ApiKeys == {"", "k"}

\* message contents of a well-formed answer
Contents == {"r1", "r2"}

\* get_cache_key(args, kwargs): the digest of str((args, kwargs)), one value
\* per argument tuple
get_cache_key(p, k) == <<"md5", p, k>>

\* cache[func.__name__][key] = result
Store(c, key, v) == [x \in DOMAIN c \cup {key} |-> IF x = key THEN v ELSE c[x]]

ApiIdle ==
    /\ cache = << >>
    /\ prompt = ""
    /\ api_key = ""
    /\ attempt = 0
    /\ posts = 0
    /\ ret = "None"
    /\ hit = FALSE
    /\ failed = {}
    /\ retried = FALSE
    /\ calls = 0
    /\ apc = "idle"

ApiStart ==
    /\ cache = << >>
    /\ prompt = ""
    /\ api_key = ""
    /\ attempt = 0
    /\ posts = 0
    /\ ret = "None"
    /\ hit = FALSE
    /\ failed = {}
    /\ retried = FALSE
    /\ calls = 0
    /\ apc = "ready"

\* wrapper: `if key in cache[func.__name__]: return cache[func.__name__][key]`
ApiCacheHit ==
    /\ apc = "ready"
    /\ calls < MaxCalls
    /\ \E p \in Prompts, k \in ApiKeys :
          /\ get_cache_key(p, k) \in DOMAIN cache
          /\ prompt' = p
          /\ api_key' = k
          /\ ret' = cache[get_cache_key(p, k)]
          /\ retried' = (get_cache_key(p, k) \in failed)
    /\ hit' = TRUE
    /\ posts' = 0
    /\ calls' = calls + 1
    /\ UNCHANGED <<cache, attempt, failed, apc>>
    /\ UNCHANGED <<cvars, mvars, svars, qvars, pvars>>

\* wrapper: the key is not in the cache, `result = func(*args, **kwargs)`
ApiCacheMiss ==
    /\ apc = "ready"
    /\ calls < MaxCalls
    /\ \E p \in Prompts, k \in ApiKeys :
          /\ get_cache_key(p, k) \notin DOMAIN cache
          /\ prompt' = p
          /\ api_key' = k
          /\ retried' = (get_cache_key(p, k) \in failed)
    /\ hit' = FALSE
    /\ posts' = 0
    /\ attempt' = 0
    /\ apc' = "body"
    /\ UNCHANGED <<cache, ret, failed, calls>>
    /\ UNCHANGED <<cvars, mvars, svars, qvars, pvars>>

\* `if not api_key: return None`, and the wrapper stores the result
ApiNoKey ==
    /\ apc = "body"
    /\ api_key = ""
    /\ ret' = "None"
    /\ cache' = Store(cache, get_cache_key(prompt, api_key), "None")
    /\ calls' = calls + 1
    /\ apc' = "ready"
    /\ UNCHANGED <<prompt, api_key, attempt, posts, hit, failed, retried>>
    /\ UNCHANGED <<cvars, mvars, svars, qvars, pvars>>

\* headers and data are built, `for attempt in range(retry)` begins
ApiEnterLoop ==
    /\ apc = "body"
    /\ api_key # ""
    /\ attempt' = 0
    /\ apc' = "loop"
    /\ UNCHANGED <<cache, prompt, api_key, posts, ret, hit, failed, retried,
                   calls>>
    /\ UNCHANGED <<cvars, mvars, svars, qvars, pvars>>

\* an attempt answered with status 200 and choices: the content is
\* returned, and the wrapper stores it
ApiAttemptOk ==
    /\ apc = "loop"
    /\ attempt < DefaultRetry
    /\ \E c \in Contents :
          /\ ret' = c
          /\ cache' = Store(cache, get_cache_key(prompt, api_key), c)
    /\ posts' = posts + 1
    /\ calls' = calls + 1
    /\ apc' = "ready"
    /\ UNCHANGED <<prompt, api_key, attempt, hit, failed, retried>>
    /\ UNCHANGED <<cvars, mvars, svars, qvars, pvars>>

\* an attempt that fails (an answer without choices, a status other than
\* 200, a timeout, another exception): warning, time.sleep(2 ** attempt),
\* next attempt
ApiAttemptFail ==
    /\ apc = "loop"
    /\ attempt < DefaultRetry
    /\ posts' = posts + 1
    /\ attempt' = attempt + 1
    /\ UNCHANGED <<cache, prompt, api_key, ret, hit, failed, retried, calls,
                   apc>>
    /\ UNCHANGED <<cvars, mvars, svars, qvars, pvars>>

\* the loop ran out: st.error, `return None`, and the wrapper stores it
ApiGiveUp ==
    /\ apc = "loop"
    /\ attempt = DefaultRetry
    /\ ret' = "None"
    /\ cache' = Store(cache, get_cache_key(prompt, api_key), "None")
    /\ failed' = failed \cup {get_cache_key(prompt, api_key)}
    /\ calls' = calls + 1
    /\ apc' = "ready"
    /\ UNCHANGED <<prompt, api_key, attempt, posts, hit, retried>>
    /\ UNCHANGED <<cvars, mvars, svars, qvars, pvars>>

\* an exception that leaves the loop (raised while one is being handled):
\* the outer `except Exception` returns None, and the wrapper stores it
ApiOuterException ==
    /\ apc = "loop"
    /\ attempt < DefaultRetry
    /\ posts' = posts + 1
    /\ ret' = "None"
    /\ cache' = Store(cache, get_cache_key(prompt, api_key), "None")
    /\ failed' = failed \cup {get_cache_key(prompt, api_key)}
    /\ calls' = calls + 1
    /\ apc' = "ready"
    /\ UNCHANGED <<prompt, api_key, attempt, hit, retried>>
    /\ UNCHANGED <<cvars, mvars, svars, qvars, pvars>>

ApiNext ==
    \/ ApiCacheHit
    \/ ApiCacheMiss
    \/ ApiNoKey
    \/ ApiEnterLoop
    \/ ApiAttemptOk
    \/ ApiAttemptFail
    \/ ApiGiveUp
    \/ ApiOuterException

\* ------------------------------------------------------------------------
\* The analysis run and its overall progress bar
\* ------------------------------------------------------------------------

MaxFiles == 4

\* total_steps = 1 + len(compare_files) * 3
StepsPerFile == 3

\* after the last statement of the body for compare file file_i: the next
\* file, or the end of the loop
AfterFile == IF file_i < n_files THEN "file_extract" ELSE "finish"

ProgressIdle ==
    /\ n_files = 0
    /\ total_steps = 0
    /\ current_step = 0
    /\ file_i = 0
    /\ skipped = {}
    /\ shown = <<0, 1>>
    /\ ppc = "idle"

\* `if submitted and base_file and compare_files:` holds, so there is at
\* least one compare file; overall_progress = st.progress(0)
ProgressStart ==
    /\ n_files \in 1..MaxFiles
    /\ total_steps = 1 + n_files * StepsPerFile
    /\ current_step = 0
    /\ file_i = 0
    /\ skipped = {}
    /\ shown = <<0, 1>>
    /\ ppc = "base_extract"

\* the text of the base file is extracted (or not); the first step is counted
BaseExtract ==
    /\ ppc = "base_extract"
    /\ current_step' = current_step + 1
    /\ shown' = <<current_step + 1, total_steps>>
    /\ \E base_text \in {"", "text"} :
          ppc' = IF base_text = "" THEN "finish" ELSE "base_clauses"
    /\ UNCHANGED <<n_files, total_steps, file_i, skipped>>
    /\ UNCHANGED <<cvars, mvars, svars, qvars, avars>>

\* the base clauses are split; a second step is counted; the loop over the
\* compare files begins
BaseClauses ==
    /\ ppc = "base_clauses"
    /\ current_step' = current_step + 1
    /\ shown' = <<current_step + 1, total_steps>>
    /\ file_i' = 1
    /\ ppc' = "file_extract"
    /\ UNCHANGED <<n_files, total_steps, skipped>>
    /\ UNCHANGED <<cvars, mvars, svars, qvars, avars>>

\* the text of compare file file_i is extracted; a step is counted; the body
\* goes on
FileExtract ==
    /\ ppc = "file_extract"
    /\ current_step' = current_step + 1
    /\ shown' = <<current_step + 1, total_steps>>
    /\ ppc' = "file_structure"
    /\ UNCHANGED <<n_files, total_steps, file_i, skipped>>
    /\ UNCHANGED <<cvars, mvars, svars, qvars, avars>>

\* no text could be extracted from compare file file_i; a step is counted;
\* `continue`
FileSkip ==
    /\ ppc = "file_extract"
    /\ current_step' = current_step + 1
    /\ shown' = <<current_step + 1, total_steps>>
    /\ skipped' = skipped \cup {file_i}
    /\ ppc' = AfterFile
    /\ file_i' = IF file_i < n_files THEN file_i + 1 ELSE file_i
    /\ UNCHANGED <<n_files, total_steps>>
    /\ UNCHANGED <<cvars, mvars, svars, qvars, avars>>

\* the structure of compare file file_i is analysed (when enabled); a step
\* is counted
FileStructure ==
    /\ ppc = "file_structure"
    /\ current_step' = current_step + 1
    /\ shown' = <<current_step + 1, total_steps>>
    /\ ppc' = "file_compare"
    /\ UNCHANGED <<n_files, total_steps, file_i, skipped>>
    /\ UNCHANGED <<cvars, mvars, svars, qvars, avars>>

\* analyze_single_comparison for compare file file_i; a step is counted
FileCompare ==
    /\ ppc = "file_compare"
    /\ current_step' = current_step + 1
    /\ shown' = <<current_step + 1, total_steps>>
    /\ ppc' = AfterFile
    /\ file_i' = IF file_i < n_files THEN file_i + 1 ELSE file_i
    /\ UNCHANGED <<n_files, total_steps, skipped>>
    /\ UNCHANGED <<cvars, mvars, svars, qvars, avars>>

\* overall_progress.empty()
ProgressFinish ==
    /\ ppc = "finish"
    /\ ppc' = "done"
    /\ UNCHANGED <<n_files, total_steps, current_step, file_i, skipped, shown>>
    /\ UNCHANGED <<cvars, mvars, svars, qvars, avars>>

ProgressNext ==
    \/ BaseExtract
    \/ BaseClauses
    \/ FileExtract
    \/ FileSkip
    \/ FileStructure
    \/ FileCompare
    \/ ProgressFinish

\* every added function idle
ExtraIdle == SimIdle /\ ApiIdle /\ ProgressIdle

\* ------------------------------------------------------------------------
\* Specifications: one function at a time
\* ------------------------------------------------------------------------

ChunkInit == ChunkStart /\ MatchIdle /\ SplitIdle /\ ExtraIdle

SpecChunk == ChunkInit /\ [][ChunkNext]_vars

MatchInit == MatchStart /\ ChunkIdle /\ SplitIdle /\ ExtraIdle

SpecMatch == MatchInit /\ [][MatchNext]_vars

SplitInit == SplitStart /\ ChunkIdle /\ MatchIdle /\ ExtraIdle

SpecSplit == SplitInit /\ [][SplitNext]_vars

BaseIdle == ChunkIdle /\ MatchIdle /\ SplitIdle

SimInit == SimStart /\ BaseIdle /\ ApiIdle /\ ProgressIdle

SpecSim == SimInit /\ [][SimNext]_vars

ApiInit == ApiStart /\ BaseIdle /\ SimIdle /\ ProgressIdle

SpecApi == ApiInit /\ [][ApiNext]_vars

ProgressInit == ProgressStart /\ BaseIdle /\ SimIdle /\ ApiIdle

SpecProgress == ProgressInit /\ [][ProgressNext]_vars

\* any of the functions
Init == ChunkInit \/ MatchInit \/ SplitInit \/ SimInit \/ ApiInit \/ ProgressInit

Next == ChunkNext \/ MatchNext \/ SplitNext \/ SimNext \/ ApiNext \/ ProgressNext

Spec == Init /\ [][Next]_vars

\* ------------------------------------------------------------------------
\* Claims about the Matcher
\* ------------------------------------------------------------------------

MatchedLeft == {matched_pairs[k].li : k \in DOMAIN matched_pairs}

MatchedRight == {matched_pairs[k].rj : k \in DOMAIN matched_pairs}

Occurrences(s, v) == Cardinality({k \in DOMAIN s : s[k] = v})

\* C1: after match_clauses every left position is in exactly one of
\* {left side of a matched pair, unmatched1}, every right position in
\* exactly one of {right side of a matched pair, unmatched2}, each once.
C1_CompleteByPosition ==
    mpc = "done" =>
        /\ \A x \in 1..Len(clauses1) :
              /\ (x \in MatchedLeft) # (Occurrences(unmatched1, x) > 0)
              /\ Occurrences(unmatched1, x) <= 1
        /\ \A j \in 1..Len(clauses2) :
              /\ (j \in MatchedRight) # (Occurrences(unmatched2, j) > 0)
              /\ Occurrences(unmatched2, j) <= 1

\* C2: at every step of the loop no left position and no right position is
\* in more than one matched pair, the consumed right positions are exactly
\* those of the pairs, and no consumed position is a candidate again.
C2_AtMostOnce ==
    /\ \A k, l \in DOMAIN matched_pairs :
          k # l => /\ matched_pairs[k].li # matched_pairs[l].li
                   /\ matched_pairs[k].rj # matched_pairs[l].rj
    /\ used_indices = MatchedRight
    /\ (mpc = "loop" /\ i < Len(clauses1)) =>
          LET cands == Candidates(clauses1, clauses2, i + 1, used_indices)
          IN  \A k \in DOMAIN cands : cands[k] \notin used_indices

\* C2 witness: two pairs were made, and the second left clause scores
\* higher against the right clause the first pair consumed than against the
\* one it got.
C2_Witness ==
    /\ mpc = "done"
    /\ Len(matched_pairs) = 2
    /\ Gt(BoostedScore(clauses1, clauses2, matched_pairs[2].li,
                       matched_pairs[1].rj),
          matched_pairs[2].best_ratio)

\* the consumed right positions at the moment the loop took up left clause i
UsedBeforeLast ==
    IF i \in MatchedLeft
    THEN used_indices \ {matched_pairs[k].rj :
                            k \in {l \in DOMAIN matched_pairs :
                                     matched_pairs[l].li = i}}
    ELSE used_indices

\* C3: the left clause the loop has just processed is unmatched only if no
\* unconsumed right clause has a similarity above the threshold.
C3_TermsOnlyRank ==
    (i > 0 /\ i \notin MatchedLeft) =>
        \A j \in 1..Len(clauses2) :
            j \notin used_indices =>
                ~Gt(chinese_text_similarity(clauses1[i], clauses2[j]),
                    BaseThreshold)

\* C4: the left clause the loop has just processed got a pair exactly when
\* the best boosted score of its candidates exceeds the configured
\* similarity_threshold.
C4_ThresholdIsConfigured ==
    (i > 0) =>
        LET cands == Candidates(clauses1, clauses2, i, UsedBeforeLast)
        IN  (i \in MatchedLeft) <=>
               \E k \in DOMAIN cands :
                   Gt(BoostedScore(clauses1, clauses2, i, cands[k]),
                      similarity_threshold)

\* the terms left clause x and right clause j share
SharedTerms(x, j) ==
    extract_key_terms(clauses1[x]) \cap extract_key_terms(clauses2[j])

\* min(1.0, 1.1 * similarity) when the two clauses share a term, the plain
\* similarity otherwise
ClaimedScore(x, j) ==
    LET r == chinese_text_similarity(clauses1[x], clauses2[j])
    IN  IF SharedTerms(x, j) = {} THEN r
        ELSE IF Gt(<<11 * r[1], 10 * r[2]>>, One) THEN One
        ELSE <<11 * r[1], 10 * r[2]>>

SameScore(r, q) == r[1] * q[2] = q[1] * r[2]

\* the pairs recorded for left clause x
PairsOf(x) == {k \in DOMAIN matched_pairs : matched_pairs[k].li = x}

\* C12: left clauses are processed in their order, each once; the clause the
\* loop has just processed has a pair if and only if the best boosted score of
\* its candidates is strictly above 0.25; the pair is then with the first
\* candidate, in candidate order, that has the highest boosted score, and
\* carries that score, which is above 0.25 and at most 1.0.
C12_GreedySelection ==
    /\ \A k, l \in DOMAIN matched_pairs :
          k < l => matched_pairs[k].li < matched_pairs[l].li
    /\ \A k \in DOMAIN matched_pairs : matched_pairs[k].li <= i
    /\ (i > 0) =>
          LET cands == Candidates(clauses1, clauses2, i, UsedBeforeLast)
              sc == [k \in DOMAIN cands |-> ClaimedScore(i, cands[k])]
          IN  /\ (PairsOf(i) # {}) <=>
                    (\E k \in DOMAIN cands : Gt(sc[k], BaseThreshold))
              /\ \A p \in PairsOf(i) :
                    \E k \in DOMAIN cands :
                        /\ cands[k] = matched_pairs[p].rj
                        /\ matched_pairs[p].clause1 = clauses1[i]
                        /\ matched_pairs[p].best_match = clauses2[cands[k]]
                        /\ \A m \in DOMAIN cands : ~Gt(sc[m], sc[k])
                        /\ \A m \in DOMAIN cands : m < k => Gt(sc[k], sc[m])
                        /\ SameScore(matched_pairs[p].best_ratio, sc[k])
                        /\ Gt(matched_pairs[p].best_ratio, BaseThreshold)
                        /\ ~Gt(matched_pairs[p].best_ratio, One)

\* C12 witness: the clause just processed was paired with the first of two
\* candidates that tie at the highest score, a score raised by shared terms.
C12_Witness ==
    /\ i > 0
    /\ \E p \in PairsOf(i) :
          LET cands == Candidates(clauses1, clauses2, i, UsedBeforeLast)
          IN  /\ Len(cands) = 2
              /\ cands[1] = matched_pairs[p].rj
              /\ SharedTerms(i, cands[1]) # {}
              /\ SameScore(ClaimedScore(i, cands[1]), ClaimedScore(i, cands[2]))
              /\ Gt(matched_pairs[p].best_ratio,
                    chinese_text_similarity(clauses1[i], clauses2[cands[1]]))

\* the unconsumed right positions that share a term with left clause x
SharingUnused(x, used) ==
    {j \in 1..Len(clauses2) : j \notin used /\ SharedTerms(x, j) # {}}

\* C13: the candidates of the left clause just processed are unconsumed right
\* clauses only; when some unconsumed right clause shares a term with it they
\* are exactly the term-sharing unconsumed ones, by descending overlap;
\* otherwise they are all unconsumed right clauses in index order.  The pair
\* recorded for the clause is with one of its candidates.
C13_CandidateSet ==
    (i > 0) =>
        LET used == UsedBeforeLast
            cands == Candidates(clauses1, clauses2, i, used)
            set == {cands[k] : k \in DOMAIN cands}
            sharing == SharingUnused(i, used)
        IN  /\ set \cap used = {}
            /\ Cardinality(set) = Len(cands)
            /\ \A p \in PairsOf(i) : matched_pairs[p].rj \in set
            /\ (sharing # {}) =>
                  /\ set = sharing
                  /\ \A k, m \in DOMAIN cands :
                        k < m => Cardinality(SharedTerms(i, cands[k]))
                                   >= Cardinality(SharedTerms(i, cands[m]))
            /\ (sharing = {}) =>
                  /\ set = (1..Len(clauses2)) \ used
                  /\ \A k, m \in DOMAIN cands : k < m => cands[k] < cands[m]

\* C13 witness: two unconsumed right clauses share terms with the clause just
\* processed, and the one with the larger overlap, second by index, came first
\* among the candidates and was paired.
C13_Witness ==
    /\ i > 0
    /\ LET cands == Candidates(clauses1, clauses2, i, UsedBeforeLast)
       IN  /\ Len(cands) = 2
           /\ cands[1] > cands[2]
           /\ Cardinality(SharedTerms(i, cands[1]))
                 > Cardinality(SharedTerms(i, cands[2]))
           /\ \E p \in PairsOf(i) : matched_pairs[p].rj = cands[1]

\* C13 witness of the other case: a right clause sharing a term with the
\* clause just processed was already consumed, and the candidates were all
\* unconsumed right clauses.
C13_FallbackReached ==
    /\ i > 0
    /\ \E j \in UsedBeforeLast : SharedTerms(i, j) # {}
    /\ SharingUnused(i, UsedBeforeLast) = {}
    /\ Candidates(clauses1, clauses2, i, UsedBeforeLast) # << >>

\* ------------------------------------------------------------------------
\* Claims about the Chunker
\* ------------------------------------------------------------------------

ValidChunkConfig == chunk_size > overlap /\ overlap >= 0

\* c0 followed by each later chunk with its first `overlap` characters removed
RECURSIVE DropOverlaps(_, _)
DropOverlaps(cs, ov) ==
    IF cs = << >> THEN << >>
    ELSE <<PySliceFrom(Head(cs), ov)>> \o DropOverlaps(Tail(cs), ov)

Reconstruct(cs, ov) ==
    IF cs = << >> THEN << >> ELSE Head(cs) \o Concat(DropOverlaps(Tail(cs), ov))

\* C5: for chunk_size > overlap >= 0, the returned chunks, concatenated with
\* the first `overlap` characters of every chunk after the first removed,
\* are the text again.
C5_ChunkReconstruction ==
    (cpc = "done" /\ ValidChunkConfig) => Reconstruct(chunks, overlap) = text

\* C5 witness: a finished valid run of several chunks whose last chunk is
\* shorter than the overlap.
C5_Witness ==
    /\ cpc = "done"
    /\ ValidChunkConfig
    /\ Len(chunks) >= 3
    /\ overlap >= 2
    /\ Len(chunks[Len(chunks)]) < overlap
    /\ text = DistinctText(Len(text))

\* C6: a call with chunk_size <= overlap or overlap < 0 produces no chunk
\* (it ends in a configuration error before the loop).
C6_InvalidConfigFailsFast ==
    (~ValidChunkConfig) => (chunks = << >>)

\* The windows the claim C7 describes: text[k*step : k*step + chunk_size] for
\* k = 0, 1, ..., ending with the first window that reaches the end of the text.
RECURSIVE WindowsUntilEnd(_, _, _, _)
WindowsUntilEnd(t, size, step, from) ==
    IF from >= Len(t) THEN << >>
    ELSE <<PySlice(t, from, from + size)>>
            \o (IF from + size >= Len(t) THEN << >>
                ELSE WindowsUntilEnd(t, size, step, from + step))

\* C7: chunk("ABCDEFGHIJ", 4, 1) is ["ABCD", "DEFG", "GHIJ"], and in general
\* a valid call returns the windows up to the first that reaches the end of
\* the text and nothing after it.
C7_WindowsStopAtEnd ==
    /\ (cpc = "done" /\ text = DistinctText(10) /\ chunk_size = 4 /\ overlap = 1)
          => chunks = << <<"A", "B", "C", "D">>, <<"D", "E", "F", "G">>,
                         <<"G", "H", "I", "J">> >>
    /\ (cpc = "done" /\ ValidChunkConfig)
          => chunks = WindowsUntilEnd(text, chunk_size, chunk_size - overlap, 0)

\* ------------------------------------------------------------------------
\* Claims about the Segmenter
\* ------------------------------------------------------------------------

\* the text is empty or whitespace only
IsBlank(t) == \A x \in DOMAIN t : t[x].k = "ws"

\* C8: split_into_clauses returns the empty sequence for every empty or
\* whitespace-only text, whatever its length.
C8_BlankGivesNoClauses ==
    (spc = "done" /\ IsBlank(doc_text)) => result = << >>

\* C9: every string split_into_clauses returns, on every path, has a trimmed
\* length above the minimum clause length.
C9_MinimumLength ==
    spc = "done" =>
        \A x \in DOMAIN result : CharLen(Strip(result[x])) > MinClauseLen

ClauseCount(p) == Len(PatternClauses(p, doc_text))

Qualifying == {p \in 1..NumPatterns : ClauseCount(p) > MinClauseCount}

\* the pattern with the most clauses among the qualifying ones, the earliest
\* of the list among equals
Winner ==
    CHOOSE p \in Qualifying :
        \A q \in Qualifying :
            \/ ClauseCount(q) < ClauseCount(p)
            \/ ClauseCount(q) = ClauseCount(p) /\ p <= q

\* C10: split_into_clauses returns the clauses of the pattern with the
\* largest clause count among those yielding more than 2 clauses (the
\* earliest on equal counts), and takes the punctuation fallback exactly
\* when no pattern yields more than 2 clauses.
C10_BestOfN ==
    spc = "done" =>
        IF Qualifying # {}
        THEN path = "pattern" /\ result = PatternClauses(Winner, doc_text)
        ELSE path # "pattern"

\* C10 witness: the first pattern of the list clears the bar with 3 clauses
\* and a later pattern, with 4, is the one returned.
C10_Witness ==
    /\ spc = "done"
    /\ path = "pattern"
    /\ ClauseCount(1) = 3
    /\ ClauseCount(3) = 4
    /\ result = PatternClauses(3, doc_text)

\* ------------------------------------------------------------------------
\* Claims about the Similarity Scorer
\* ------------------------------------------------------------------------

\* C11: chinese_text_similarity(a, b) = chinese_text_similarity(b, a) for all
\* texts a, b; the score is in [0, 1], and is 1.0 when a = b is not empty.
C11_SimilaritySymmetric ==
    qpc = "done" =>
        /\ ~Gt(sim12, sim21) /\ ~Gt(sim21, sim12)
        /\ ~Gt(<<0, 1>>, sim12) /\ ~Gt(sim12, One)
        /\ (arg1 = arg2 /\ arg1 # << >>) => (~Gt(One, sim12))

\* ------------------------------------------------------------------------
\* Claims about the LLM call and the analysis run
\* ------------------------------------------------------------------------

\* C14: a call made with an api_key is never answered None from the cache,
\* and a call whose arguments earlier returned None after failed attempts is
\* not answered from the cache but contacts the API again.
C14_FailuresNotRemembered ==
    (apc = "ready" /\ calls > 0) =>
        /\ (hit /\ api_key # "") => ret # "None"
        /\ retried => (~hit /\ posts > 0)

\* C15: every value passed to the overall progress bar is in [0, 1]:
\* current_step never exceeds total_steps = 1 + 3 * n.
C15_ProgressInUnitRange ==
    /\ total_steps = 1 + 3 * n_files
    /\ 0 <= shown[1]
    /\ shown[1] <= shown[2]
    /\ current_step <= total_steps

=============================================================================
